---- MODULE Spec2Model ----
(***************************************************************************)
(* A state-machine model of tunerkit-node (src/src/index.ts, the current   *)
(* revision, lines 1-417): the TunerkitClient call interceptor, its        *)
(* session context, the simulation gate (_runDevFlow), the primary log     *)
(* endpoint (_logToTunerkit), the tool() variant and the HeliconeLogger    *)
(* sink.  One action per handler or per continuation of an await.          *)
(***************************************************************************)
EXTENDS Integers, Sequences, FiniteSets, TLC

\* ------------------------------------------------------------------ bounds
MaxCalls == 1
MaxSessions == 1
MaxTicks == 1
MaxChunks == 2

\* ------------------------------------------------------- JavaScript values
\* Every JavaScript value the model handles is a string naming it.
Undef == "undefined"
Null == "null"
EmptyString == ""

\* `v || w`, `if (v)`: undefined, null, '' and false are falsy.
Falsy(v) == v \in {Undef, Null, EmptyString, "false"}

\* A property read `v.x` throws a TypeError on undefined and null.
Nullish(v) == v \in {Undef, Null}

\* ------------------------------------------------------------ header names
H_SessionId == "Tunerkit-Session-Id"
H_SessionPath == "Tunerkit-Session-Path"
H_SessionName == "Tunerkit-Session-Name"
H_DatasetId == "Tunerkit-Dataset-Id"
H_RecordId == "Tunerkit-Record-Id"
H_SessionType == "Tunerkit-Session-Type"
H_SessionParentId == "Tunerkit-Session-Parent-Id"

\* The five correlation fields of a session.
CorrelationFields == {H_DatasetId, H_SessionId, H_RecordId, H_SessionType, H_SessionParentId}

\* An object literal with no own property.
EmptyHeaders == [k \in {} |-> Undef]

\* `h[k]`: the value of an own property, undefined when it has none.
Get(h, k) == IF k \in DOMAIN h THEN h[k] ELSE Undef

\* `{...h, [k]: v}`: a copy of h with property k set to v.
Spread(h, k, v) == [x \in (DOMAIN h) \cup {k} |-> IF x = k THEN v ELSE h[x]]

\* Date.now() split as Math.trunc(t / 1000) and t % 1000.
\* An undefined instant gives NaN for both parts.
NaN == -1

TimeParts(t) ==
    IF t = NaN THEN [seconds |-> NaN, milliseconds |-> NaN]
    ELSE [seconds |-> t \div 1000, milliseconds |-> t % 1000]

Timing(startTime, endTime) == [startTime |-> TimeParts(startTime), endTime |-> TimeParts(endTime)]

\* Milliseconds that pass between two readings of the clock that differ.
TickMs == 600

\* uuidv4(): the n-th identifier generated, distinct from every other one.
uuidv4(n) == "uuid-" \o ToString(n)

\* ------------------------------------------------------------------- state
VARIABLES
    client,           \* this.client: the wrapped object, a map from property paths to kinds
    logger,           \* this.logger: TRUE when a HeliconeLogger is attached
    datasetId,        \* this.datasetId
    sessionType,      \* this.sessionType
    sessionId,        \* this.sessionId
    recordId,         \* this.recordId
    sessionParentId,  \* this.sessionParentId
    calls,            \* the proxied and tool calls, by order of invocation
    logs,             \* the requests sent to POST {baseURL}/api/logs, in order
    sims,             \* the requests sent to POST {baseURL}/api/completions, in order
    sinks,            \* the requests sent to POST {sink}/trace/log, in order
    console,          \* the console.error reports
    held,             \* the header sets startSession returned to the caller
    ended,            \* the header sets among `held` that were passed to endSession
    now,              \* Date.now()
    uuids             \* how many identifiers uuidv4() generated

vars == <<client, logger, datasetId, sessionType, sessionId, recordId, sessionParentId,
          calls, logs, sims, sinks, console, held, ended, now, uuids>>

session == <<datasetId, sessionType, sessionId, recordId, sessionParentId>>

\* ---------------------------------------------------------- wrapped client
\* The wrapped object is a tree; `client` gives the kind of the value at each
\* property path that exists: "object", "value" (a primitive), or the function
\* that is there.
ChatCreate == <<"chat", "create">>
SetSessionPath == <<"setSession">>
NoSuchPath == <<"nosuch", "method">>

NewSubMethod == <<"newSub", "method">>

\* The paths the caller reaches through the proxy.
Paths == {ChatCreate, SetSessionPath, NoSuchPath, NewSubMethod}

\* The functions a property of the wrapped object may hold.
Functions == {"fn1", "fn2"}

\* A client such as the OpenAI one: client.chat.create is a method.
PlainClient == (<<"chat">> :> "object") @@ (ChatCreate :> "fn1")

\* A client that has a method of its own called setSession.
SessionfulClient == PlainClient @@ (SetSessionPath :> "fn1")

\* A client with a property that holds a primitive: client.chat.model.
ChatModel == <<"chat", "model">>
ValuedClient == PlainClient @@ (ChatModel :> "value")

\* Paths that do not lead to a method of PlainClient or ValuedClient: a missing
\* terminal, an object as terminal, a primitive as terminal, a segment past a
\* primitive, and (NoSuchPath) a missing first segment.
UncallablePaths ==
    {NoSuchPath, <<"chat", "nosuch">>, <<"chat">>, ChatModel, <<"chat", "model", "x">>}

\* typeof of the value at `path`; "undefined" when the path has no value.
TypeOf(obj, path) ==
    IF path \notin DOMAIN obj THEN Undef
    ELSE IF obj[path] \in Functions THEN "function"
    ELSE obj[path]

\* propPath.split('.').reduce((obj, prop) => (obj && typeof obj === 'object'
\* && prop in obj) ? obj[prop] : undefined, self.client): the path reached
\* after `done` segments, or <<Undef>> once a step gave undefined.
RECURSIVE ReduceGuarded(_, _, _)
ReduceGuarded(obj, acc, rest) ==
    IF rest = <<>> THEN acc
    ELSE IF acc # <<Undef>>
            /\ (acc = <<>> \/ TypeOf(obj, acc) = "object")
            /\ Append(acc, Head(rest)) \in DOMAIN obj
         THEN ReduceGuarded(obj, Append(acc, Head(rest)), Tail(rest))
         ELSE ReduceGuarded(obj, <<Undef>>, Tail(rest))

\* The apply trap without its check of lines 220-222.
ResolveMethodUnchecked(obj, path) == "function"

\* typeof method, for the method of lines 213-218.
ResolveMethod(obj, path) ==
    LET at == ReduceGuarded(obj, <<>>, path)
    IN IF at = <<Undef>> THEN Undef ELSE TypeOf(obj, at)

\* methodParts.reduce((obj, prop) => obj[prop], self.client), then
\* typeof methodObject[methodName]: "TypeError" when a property is read on
\* undefined, else the typeof of the terminal value.
RECURSIVE ReduceUnguarded(_, _, _)
ReduceUnguarded(obj, acc, rest) ==
    IF rest = <<>> THEN acc
    ELSE IF acc = <<Undef>> THEN <<"TypeError">>
    ELSE IF acc = <<"TypeError">> THEN acc
    ELSE IF Append(acc, Head(rest)) \in DOMAIN obj
         THEN ReduceUnguarded(obj, Append(acc, Head(rest)), Tail(rest))
         ELSE ReduceUnguarded(obj, <<Undef>>, Tail(rest))

ResolveMethodObject(obj, path) ==
    LET parent == ReduceUnguarded(obj, <<>>, SubSeq(path, 1, Len(path) - 1))
    IN IF parent \in {<<Undef>>, <<"TypeError">>} THEN "TypeError"
       ELSE TypeOf(obj, Append(parent, path[Len(path)]))

\* The function the wrapped object held at `path` when it was constructed.
MethodAtConstruction(obj, path) == Get(PlainClient, path)

\* methodObject[methodName], read from self.client when the call invokes it.
MethodAt(obj, path) == Get(obj, path)

\* The caller assigns to the wrapped object: client.newSub = {method: fn}, or
\* client.chat.create = fn.
AddSub(fn) ==
    /\ <<"newSub">> \notin DOMAIN client
    /\ client' = (<<"newSub">> :> "object") @@ (NewSubMethod :> fn) @@ client
    /\ UNCHANGED <<logger, datasetId, sessionType, sessionId, recordId, sessionParentId,
                   calls, logs, sims, sinks, console, held, ended, now, uuids>>

ReplaceMethod(path, fn) ==
    /\ path \in DOMAIN client
    /\ client[path] \in Functions \ {fn}
    /\ client' = [client EXCEPT ![path] = fn]
    /\ UNCHANGED <<logger, datasetId, sessionType, sessionId, recordId, sessionParentId,
                   calls, logs, sims, sinks, console, held, ended, now, uuids>>

\* ------------------------------------------------------ primary log endpoint
\* Object.fromEntries(Object.entries(headers).filter(([_, v]) => v !== undefined))
CleanedHeaders(headers) ==
    [k \in {x \in DOMAIN headers : headers[x] # Undef} |-> headers[k]]

\* JSON.stringify of an object drops a property whose value is undefined.
JSONProperty(v) == IF v = Undef THEN "(omitted)" ELSE v

\* _logToTunerkit(request, response, timing, headers): the request handed to
\* fetch.  The call itself is never awaited by its callers; `status` is the
\* state of the promise it returns, which resolves when the fetch settles: a
\* rejection of the fetch is caught and reported (LogSettle).
LogToTunerkit(request, response, timing, headers) ==
    [ url     |-> "/api/logs",
      headers |-> CleanedHeaders(headers)
                  @@ [k \in {"Content-Type", "Authorization"} |->
                         IF k = "Content-Type" THEN "application/json" ELSE "Bearer apiKey"],
      body    |-> [request |-> request, response |-> JSONProperty(response), timing |-> timing],
      status  |-> "pending" ]

\* A request as the log keeps it, with the operation that sent it.
Sent(req, op, id) == [req |-> req, op |-> op, id |-> id]

\* ------------------------------------------------------- session lifecycle
DatasetIdArgs == {"d1"}
RecordIdArgs == {Undef, "r1"}
SessionIdArgs == {Undef, "s1"}
ParentIdArgs == {Undef, "p1"}
TypeArgs == {Undef, "test"}

\* The parameter default `type = 'real'`.
DefaultType(type) == IF type = Undef THEN "real" ELSE type

\* The header set startSession builds and returns (lines 158-164).
StartSessionHeaders(dId, rId, sId, pId, type) ==
    (H_DatasetId :> dId) @@ (H_RecordId :> rId) @@ (H_SessionId :> sId)
    @@ (H_SessionType :> type) @@ (H_SessionParentId :> pId)

\* What startSession stores in this.sessionParentId: it has no assignment to
\* the field, which keeps its value.
StartSessionParentId(old, pId) == old

\* startSession({inputs, datasetId, recordId, sessionId, parentId, type})
StartSession(dId, rIdArg, sIdArg, pId, typeArg) ==
    LET rId  == IF Falsy(rIdArg) THEN uuidv4(uuids + 1) ELSE rIdArg
        n1   == IF Falsy(rIdArg) THEN uuids + 1 ELSE uuids
        sId  == IF Falsy(sIdArg) THEN uuidv4(n1 + 1) ELSE sIdArg
        n2   == IF Falsy(sIdArg) THEN n1 + 1 ELSE n1
        type == DefaultType(typeArg)
        headers == StartSessionHeaders(dId, rId, sId, pId, type)
    IN /\ datasetId' = dId
       /\ sessionId' = sId
       /\ recordId' = rId
       /\ sessionType' = type
       /\ sessionParentId' = StartSessionParentId(sessionParentId, pId)
       /\ uuids' = n2
       /\ logs' = Append(logs, Sent(LogToTunerkit("inputs", "{}", Timing(now, now),
                                        Spread(headers, H_SessionPath, "__START__")),
                                    "startSession", Len(held) + 1))
       /\ held' = Append(held, headers)
       /\ UNCHANGED <<client, logger, calls, sims, sinks, console, ended, now>>

\* endSession tagging the active session's fields rather than the headers
\* passed to it.
EndSessionActive(h) ==
    /\ h \in (1..Len(held)) \ ended
    /\ ended' = ended \cup {h}
    /\ logs' = Append(logs, Sent(LogToTunerkit("outputs", "{}", Timing(now, now),
                                     Spread(StartSessionHeaders(datasetId, recordId, sessionId,
                                                                sessionParentId, sessionType),
                                            H_SessionPath, "__END__")),
                                 "endSession", h))
    /\ UNCHANGED <<client, logger, session, calls, sims, sinks, console, held, now, uuids>>

\* endSession that also resets the session fields to what the constructor
\* leaves.
EndSessionClearing(h) ==
    /\ h \in (1..Len(held)) \ ended
    /\ ended' = ended \cup {h}
    /\ logs' = Append(logs, Sent(LogToTunerkit("outputs", "{}", Timing(now, now),
                                     Spread(held[h], H_SessionPath, "__END__")),
                                 "endSession", h))
    /\ datasetId' = EmptyString /\ sessionId' = EmptyString /\ recordId' = EmptyString
    /\ sessionParentId' = EmptyString /\ sessionType' = "real"
    /\ UNCHANGED <<client, logger, calls, sims, sinks, console, held, now, uuids>>

\* endSession({outputs, headers}); the caller passes a header set that
\* startSession returned.
EndSession(h) ==
    /\ h \in (1..Len(held)) \ ended
    /\ ended' = ended \cup {h}
    /\ logs' = Append(logs, Sent(LogToTunerkit("outputs", "{}", Timing(now, now),
                                     Spread(held[h], H_SessionPath, "__END__")),
                                 "endSession", h))
    /\ UNCHANGED <<client, logger, session, calls, sims, sinks, console, held, now, uuids>>

\* _logToTunerkit awaited by its caller and without its try/catch: a failed
\* send of a call's record reaches the call.
LogSettleUncaught(i, ok) ==
    /\ i \in 1..Len(logs)
    /\ logs[i].req.status = "pending"
    /\ logs' = [logs EXCEPT ![i].req.status = "settled"]
    /\ calls' = IF ~ok /\ logs[i].op = "call"
                THEN [calls EXCEPT ![logs[i].id].outcome = [kind |-> "threw", v |-> "FetchError"]]
                ELSE calls
    /\ UNCHANGED <<client, logger, session, sims, sinks, console, held, ended, now, uuids>>

\* The fetch of a request to the primary log endpoint settles; a rejection is
\* caught in _logToTunerkit and reported with console.error.
LogSettle(i, ok) ==
    /\ i \in 1..Len(logs)
    /\ logs[i].req.status = "pending"
    /\ logs' = [logs EXCEPT ![i].req.status = "settled"]
    /\ console' = IF ok THEN console ELSE console \cup {"Error logging to Tunerkit:"}
    /\ UNCHANGED <<client, logger, session, calls, sims, sinks, held, ended, now, uuids>>

\* Time passes.
Tick ==
    /\ now < MaxTicks * TickMs
    /\ now' = now + TickMs
    /\ UNCHANGED <<client, logger, session, calls, logs, sims, sinks, console, held, ended, uuids>>

\* ------------------------------------------------------------ Logging Sink
\* The request HeliconeLogger.log hands to fetch (lines 335-372).
SinkRequest(rec) ==
    [ url     |-> "/trace/log",
      headers |-> rec.headers
                  @@ [k \in {"Content-Type", "Authorization"} |->
                         IF k = "Content-Type" THEN "application/json"
                         ELSE "Bearer heliconeApiKey"],
      body    |-> [providerRequest  |-> rec.params,
                   providerResponse |-> rec.response,
                   meta             |-> rec.meta,
                   timing           |-> Timing(rec.startTime, rec.endTime)],
      status  |-> "pending" ]

\* HeliconeLogger.log without its try/catch: reading response.headers on a
\* null or undefined response rejects the promise log returns.
HeliconeLogUncaught(rec) ==
    IF Falsy(rec.params)
    THEN [sent |-> <<>>, console |-> {"Request is not registered."}, threw |-> "none"]
    ELSE IF Nullish(rec.response)
    THEN [sent |-> <<>>, console |-> {}, threw |-> "TypeError"]
    ELSE [sent |-> <<SinkRequest(rec)>>, console |-> {}, threw |-> "none"]

\* HeliconeLogger.log({params, response, headers, meta, startTime, endTime}):
\* the request it sends (none when params is missing, or when building the
\* request throws inside its try block) and what it reports.
\* `threw` is the error the promise that log returns is rejected with: none.
HeliconeLog(rec) ==
    IF Falsy(rec.params)
    THEN [sent |-> <<>>, console |-> {"Request is not registered."}, threw |-> "none"]
    ELSE IF Nullish(rec.response)
    THEN [sent |-> <<>>, console |-> {"Error making request to Helicone log endpoint:"},
          threw |-> "none"]
    ELSE [sent |-> <<SinkRequest(rec)>>, console |-> {}, threw |-> "none"]

\* The fetch of a request to the sink settles; a rejection is caught in
\* HeliconeLogger.log and reported; then log returns, which resolves its
\* promise: a caller that awaits log itself resumes.
SinkSettle(i, ok) ==
    /\ i \in 1..Len(sinks)
    /\ sinks[i].req.status = "pending"
    /\ sinks' = [sinks EXCEPT ![i].req.status = "settled"]
    /\ console' = IF ok THEN console
                  ELSE console \cup {"Error making request to Helicone log endpoint:"}
    /\ calls' = IF calls[sinks[i].id].kind = "log"
                THEN [calls EXCEPT ![sinks[i].id].pc = "done",
                                   ![sinks[i].id].outcome = [kind |-> "returned", v |-> Undef]]
                ELSE calls
    /\ UNCHANGED <<client, logger, session, logs, sims, held, ended, now, uuids>>

\* --------------------------------------------------------- Simulation Gate
\* The request _runDevFlow hands to fetch: four header fields read from
\* `headers`, each undefined when `headers` has no such property.
RunDevFlowRequest(params, headers) ==
    [ url     |-> "/api/completions",
      headers |-> [k \in {"Content-Type", "Authorization", H_SessionId, H_SessionPath,
                          H_SessionName, H_RecordId} |->
                      IF k = "Content-Type" THEN "application/json"
                      ELSE IF k = "Authorization" THEN "Bearer apiKey"
                      ELSE Get(headers, k)],
      body    |-> JSONProperty(params) ]

\* What the simulation endpoint may answer.
GateAnswers ==
    {[kind |-> k, run_model |-> Undef, response |-> Undef] : k \in {"unreachable", "status500"}}
    \cup {[kind |-> "ok", run_model |-> rm, response |-> r] :
             rm \in {"true", "false"}, r \in {Undef, "simulated"}}

\* _runDevFlow falling back to the real call when the endpoint fails.
RunDevFlowFallback(answer) ==
    [threw |-> "none",
     devResponse |-> [run_model |-> IF answer.kind = "ok" THEN answer.run_model ELSE "true",
                      response |-> answer.response]]

\* _runDevFlow after its fetch settles: the error it throws, or the body it
\* returns as devResponse.
RunDevFlow(answer) ==
    IF answer.kind = "unreachable"
    THEN [threw |-> "FetchError", devResponse |-> [run_model |-> Undef, response |-> Undef]]
    ELSE IF answer.kind # "ok"
    THEN [threw |-> "Tunerkit API request failed", devResponse |-> [run_model |-> Undef, response |-> Undef]]
    ELSE [threw |-> "none", devResponse |-> [run_model |-> answer.run_model, response |-> answer.response]]

\* ------------------------------------------------------------------- calls
\* The first argument of a call: none, an object without `stream`, an object
\* with stream: true, or the {sessionId, sessionName} object of setSession.
ParamsArgs == {Undef, "plain", "stream", "session"}

\* The sessionId property of the {sessionId, sessionName} object.
NewSessionId == "s9"

\* params.stream, for a params that is an object.
ParamsStream(params) == IF params = "stream" THEN "true" ELSE Undef

\* The explicit header set a caller may pass as second argument.
ExplicitHeaders == (H_SessionId :> "x1") @@ (H_SessionName :> "My Chat Session")

\* response.meta, for a response that is an object.
Meta(response) == IF response = "withMeta" THEN "meta" ELSE Undef

\* What a wrapped method may do once invoked: return a value, raise, or (asked
\* to stream) return an emitter.
MethodResults(params) ==
    IF params # Undef /\ ParamsStream(params) = "true"
    THEN {[kind |-> "emitter", v |-> Undef], [kind |-> "error", v |-> "E1"]}
    ELSE {[kind |-> "value", v |-> r] : r \in {Undef, Null, "plain", "withMeta"}}
         \cup {[kind |-> "error", v |-> "E1"]}

\* A chunk is a Buffer: a sequence of bytes.  A run of ASCII bytes is written
\* as the text it encodes; "<C3>" and "<A9>" are the two bytes that encode the
\* character U+00E9 in UTF-8.
LeadByte == "<C3>"
ContinuationByte == "<A9>"
EAcute == "<U+00E9>"
Replacement == "<U+FFFD>"

\* chunk.toString(): the UTF-8 decoding of the bytes of one chunk.  A lead
\* byte without its continuation, and a continuation byte without its lead,
\* each decode to U+FFFD.
RECURSIVE Utf8Decode(_)
Utf8Decode(bytes) ==
    IF bytes = <<>> THEN ""
    ELSE IF Head(bytes) = LeadByte
    THEN IF Len(bytes) >= 2 /\ bytes[2] = ContinuationByte
         THEN EAcute \o Utf8Decode(Tail(Tail(bytes)))
         ELSE Replacement \o Utf8Decode(Tail(bytes))
    ELSE IF Head(bytes) = ContinuationByte THEN Replacement \o Utf8Decode(Tail(bytes))
    ELSE Head(bytes) \o Utf8Decode(Tail(bytes))

\* The chunks a stream may emit, and JSON.parse of the accumulated text.
Chunks == {<<"{\"a\":1">>, <<"}">>, <<"null">>}

\* The bytes of the JSON text {"a":"\u00e9"}, and the chunks a stream of them
\* may emit: any run of consecutive bytes.
Payload == <<"{\"a\":\"", LeadByte, ContinuationByte, "\"}">>
PayloadChunks == {SubSeq(Payload, a, b) : a, b \in 1..Len(Payload)} \ {<<>>}

JSONParse(text) ==
    IF text = "{\"a\":1}" THEN "{a:1}"
    ELSE IF text = "null" THEN Null
    ELSE IF text = "{\"a\":\"" \o EAcute \o "\"}" THEN "{a:" \o EAcute \o "}"
    ELSE IF text = "{\"a\":\"" \o Replacement \o Replacement \o "\"}"
    THEN "{a:" \o Replacement \o Replacement \o "}"
    ELSE "SyntaxError"

\* A receiver (the `this` of an invocation): the object at `path` of the
\* object `of`.
Receiver(of, path) == [of |-> of, path |-> path]
NoReceiver == Receiver("none", <<>>)

\* methodObject[methodName](params): the method is invoked as a property of
\* methodObject, the object at the path without its last part (lines 238-240).
ProxyReceiver(path) == Receiver("client", SubSeq(path, 1, Len(path) - 1))

\* The object whose method tool() decorates, and on which the caller invokes
\* the wrapper.
DecoratedObject == Receiver("webTools", <<>>)

\* originalMethod.apply(this, args): the wrapper is an arrow function inside
\* tool(), whose `this` is the TunerkitClient tool() was called on, whatever
\* the wrapper is called on.
ToolReceiver(calledOn) == Receiver("TunerkitClient", <<>>)

\* The argument list of client.<path>(params, headers?, options?): trailing
\* arguments the caller leaves out are not part of it.
ArgList(params, withHeaders, explicit, options) ==
    IF options # Undef THEN <<params, IF withHeaders THEN explicit ELSE Undef, options>>
    ELSE IF withHeaders THEN <<params, explicit>>
    ELSE <<params>>

NoCall ==
    [ kind |-> "none", pc |-> "idle", path |-> <<>>, params |-> Undef,
      explicit |-> EmptyHeaders, dev |-> FALSE, headers |-> EmptyHeaders,
      isDev |-> FALSE, startTime |-> NaN, endTime |-> NaN,
      gate |-> "none", devResponse |-> [run_model |-> "true", response |-> Undef],
      invoked |-> 0, result |-> [kind |-> "none", v |-> Undef],
      fullResponse |-> "", emitted |-> <<>>, chunks |-> 0, response |-> Undef, target |-> Undef,
      outcome |-> [kind |-> "pending", v |-> Undef], started |-> 0,
      gateTime |-> NaN, calledOn |-> NoReceiver, receiver |-> NoReceiver,
      args |-> <<>>, received |-> <<>> ]

\* The call ends by returning `v` / by throwing `e` to its caller.
Returned(c, v) == [c EXCEPT !.pc = "done", !.outcome = [kind |-> "returned", v |-> v]]
Threw(c, e) == [c EXCEPT !.pc = "done", !.outcome = [kind |-> "threw", v |-> e]]

\* What one synchronous stretch of a call did: the call's new state and the
\* requests and reports it issued.
Step(c, log, sink, report) == [call |-> c, logs |-> log, sinks |-> sink, console |-> report]

\* if (self.logger) { self.logger.log({params, response, headers,
\* meta: response.meta, startTime, endTime}) }; return response
LoggerAndReturn(c, response, startTime, endTime, log) ==
    IF ~logger THEN Step(Returned(c, response), log, <<>>, {})
    ELSE IF Nullish(response) THEN Step(Threw(c, "TypeError"), log, <<>>, {})
    ELSE LET out == HeliconeLog([params |-> c.params, response |-> response,
                                 headers |-> c.headers, meta |-> Meta(response),
                                 startTime |-> startTime, endTime |-> endTime])
         IN Step(Returned(c, response), log, out.sent, out.console)

\* ----------------------------------------------------- createProxyHandler
\* The headers of a proxied call (lines 202-209): `const [params] = args`
\* reads the first argument only, and the header set is built from the
\* session fields; `explicit`, the second argument, is not read.
ProxyHeaders(explicit) ==
    (H_DatasetId :> datasetId) @@ (H_SessionId :> sessionId) @@ (H_RecordId :> recordId)
    @@ (H_SessionType :> sessionType) @@ (H_SessionParentId :> sessionParentId)

\* The gate switched by the per-call option, as the earlier revision did
\* (`if (options?.dev)`), and not by the session type.
IsDevByOption(type, dev) == dev

\* const isDev = self.sessionType === 'test'; `dev`, the option of the third
\* argument, is not read.
IsDev(type, dev) == type = "test"

\* Lines 237-272, from `if (devResponse.run_model)` to the await of the
\* wrapped method (or, with run_model falsy, lines 288-299).
ProxyRunModel(c) ==
    IF Falsy(c.devResponse.run_model)
    THEN LoggerAndReturn([c EXCEPT !.response = c.devResponse.response],
                         c.devResponse.response, c.startTime, c.endTime, <<>>)
    ELSE LET type == ResolveMethodObject(client, c.path)
             c1   == [c EXCEPT !.startTime = now]
         IN IF type = "TypeError" THEN Step(Threw(c, "TypeError"), <<>>, <<>>, {})
            ELSE IF type # "function"
            THEN Step(Threw(c, "Method not found on client"), <<>>, <<>>, {})
            ELSE IF Nullish(c.params) THEN Step(Threw(c1, "TypeError"), <<>>, <<>>, {})
            ELSE Step([c1 EXCEPT !.pc = "method", !.invoked = @ + 1,
                                 !.target = MethodAt(client, c.path),
                                 !.receiver = ProxyReceiver(c.path),
                                 !.received = <<c.params>>], <<>>, <<>>, {})

\* Lines 272-299 with the header set built from the session fields when the
\* record is sent, not when the call was invoked.
ProxyResponseLateHeaders(c, response) ==
    LET c1 == [c EXCEPT !.response = response, !.endTime = now]
    IN LoggerAndReturn(c1, response, c1.startTime, c1.endTime,
           << LogToTunerkit(c.params, response, Timing(c1.startTime, c1.endTime),
                            ProxyHeaders(c.explicit)) >>)

\* Lines 272-299: the wrapped method returned `response` to a call that does
\* not stream.
ProxyResponse(c, response) ==
    LET c1 == [c EXCEPT !.response = response, !.endTime = now]
    IN LoggerAndReturn(c1, response, c1.startTime, c1.endTime,
           << LogToTunerkit(c.params, response, Timing(c1.startTime, c1.endTime), c.headers) >>)

\* Lines 254-269 and 288-299: the stream's 'end' event.  JSON.parse throws
\* inside the listener, before resolve: the promise the call awaits is then
\* never settled.
ProxyStreamEnd(c) ==
    LET c1 == [c EXCEPT !.endTime = now]
        response == JSONParse(c.fullResponse)
    IN IF response = "SyntaxError" THEN Step([c1 EXCEPT !.pc = "hung"], <<>>, <<>>, {})
       ELSE LoggerAndReturn([c1 EXCEPT !.response = response], response,
                c1.startTime, c1.endTime,
                << LogToTunerkit(c.params, response, Timing(c1.startTime, c1.endTime), c.headers) >>)

\* The effect of one synchronous stretch of call i on the state.
Commit(i, st) ==
    /\ calls' = IF i = Len(calls) + 1 THEN Append(calls, st.call)
                ELSE [calls EXCEPT ![i] = st.call]
    /\ logs' = logs \o [k \in 1..Len(st.logs) |-> Sent(st.logs[k], "call", i)]
    /\ sinks' = sinks \o [k \in 1..Len(st.sinks) |-> Sent(st.sinks[k], "call", i)]
    /\ console' = console \cup st.console

\* The per-call options a caller may pass as third argument: none, or
\* {dev: true}.
OptionsArgs == {Undef, "dev"}

\* client.<path>(params, explicit headers?, options?): the apply trap up to
\* its first await (lines 201-235, and on to line 248/272 in a session that
\* is not a test session).
ProxyInvoke(path, params, withHeaders, options) ==
    LET i  == Len(calls) + 1
        explicit == IF withHeaders THEN ExplicitHeaders ELSE EmptyHeaders
        c0 == [NoCall EXCEPT !.kind = "proxy", !.path = path, !.params = params,
                             !.explicit = explicit, !.headers = ProxyHeaders(explicit),
                             !.dev = (options = "dev"),
                             !.args = ArgList(params, withHeaders, explicit, options),
                             !.isDev = IsDev(sessionType, options = "dev"),
                             !.started = Len(held)]
        c1 == [c0 EXCEPT !.startTime = now, !.endTime = now]
    IN /\ IF ResolveMethod(client, path) # "function"
          THEN /\ Commit(i, Step(Threw(c0, "Method not found on client"), <<>>, <<>>, {}))
               /\ sims' = sims
          ELSE IF c1.isDev
          THEN /\ Commit(i, Step([c1 EXCEPT !.pc = "gate", !.gateTime = now], <<>>, <<>>, {}))
               /\ sims' = Append(sims, Sent(RunDevFlowRequest(params, c1.headers), "call", i))
          ELSE /\ Commit(i, ProxyRunModel(c1))
               /\ sims' = sims
       /\ UNCHANGED <<client, logger, session, held, ended, now, uuids>>

\* logger.log({params, response, headers: {}, meta: response?.meta,
\* startTime, endTime}) called on the HeliconeLogger itself: log up to its
\* await of fetch, or to its end when it sends nothing.
LoggerLog(params, response) ==
    LET i   == Len(calls) + 1
        c0  == [NoCall EXCEPT !.kind = "log", !.params = params, !.response = response,
                              !.headers = EmptyHeaders, !.startTime = now, !.endTime = now]
        out == HeliconeLog([params |-> params, response |-> response,
                            headers |-> EmptyHeaders,
                            meta |-> IF Nullish(response) THEN Undef ELSE Meta(response),
                            startTime |-> now, endTime |-> now])
    IN /\ Commit(i, IF out.threw # "none" THEN Step(Threw(c0, out.threw), <<>>, <<>>, {})
                    ELSE IF out.sent = <<>>
                    THEN Step(Returned(c0, Undef), <<>>, <<>>, out.console)
                    ELSE Step([c0 EXCEPT !.pc = "sink"], <<>>, out.sent, out.console))
       /\ UNCHANGED <<client, logger, session, sims, held, ended, now, uuids>>

\* -------------------------------------------------------------------- tool
\* The wrapper tool(options) installs, up to its first await (lines 106-121):
\* params = args[0] || {}, headers = args[1] || {}, dev = options?.dev || false.
ToolRunModel(c) ==
    IF Falsy(c.devResponse.run_model)
    THEN LoggerAndReturn([c EXCEPT !.response = c.devResponse.response],
                         c.devResponse.response, NaN, NaN, <<>>)
    ELSE Step([c EXCEPT !.startTime = now, !.pc = "method", !.invoked = @ + 1,
                        !.receiver = ToolReceiver(c.calledOn),
                        !.received = c.args], <<>>, <<>>, {})

\* Lines 121-145: the original method returned `response`.
ToolResponse(c, response) ==
    LET c1 == [c EXCEPT !.response = response, !.endTime = now]
    IN LoggerAndReturn(c1, response, NaN, NaN,
           << LogToTunerkit(c.params, response, Timing(c1.startTime, c1.endTime), c.headers) >>)

\* A call of a function wrapped by tool({dev}); `h` picks the header set passed
\* as second argument among those startSession returned, 0 for none.
ToolInvoke(arg0, h, dev) ==
    LET i  == Len(calls) + 1
        c0 == [NoCall EXCEPT !.kind = "tool",
                             !.params = IF Falsy(arg0) THEN "{}" ELSE arg0,
                             !.headers = IF h = 0 THEN EmptyHeaders ELSE held[h],
                             !.dev = dev, !.isDev = dev, !.started = Len(held),
                             !.calledOn = DecoratedObject,
                             !.args = IF h = 0 THEN <<arg0>> ELSE <<arg0, held[h]>>]
    IN /\ h \in 0..Len(held)
       /\ IF c0.isDev
          THEN /\ Commit(i, Step([c0 EXCEPT !.pc = "gate"], <<>>, <<>>, {}))
               /\ sims' = Append(sims, Sent(RunDevFlowRequest(c0.params, c0.headers), "call", i))
          ELSE /\ Commit(i, ToolRunModel(c0))
               /\ sims' = sims
       /\ UNCHANGED <<client, logger, session, held, ended, now, uuids>>

\* ------------------------------------------------------------ continuations
\* The simulation endpoint answers call i, which resumes after
\* `await self._runDevFlow(params, headers)`.
GateRespond(i, answer) ==
    LET c  == calls[i]
        r  == RunDevFlow(answer)
        c1 == [c EXCEPT !.gate = answer.kind, !.devResponse = r.devResponse]
    IN /\ i \in 1..Len(calls)
       /\ c.pc = "gate"
       /\ Commit(i, IF r.threw # "none" THEN Step(Threw(c1, r.threw), <<>>, <<>>, {})
                    ELSE IF c.kind = "proxy" THEN ProxyRunModel(c1)
                    ELSE ToolRunModel(c1))
       /\ UNCHANGED <<client, logger, session, sims, held, ended, now, uuids>>

\* The error of the wrapped method caught and rethrown inside a new error.
MethodRaisedWrapped(c, e) ==
    [call |-> [c EXCEPT !.pc = "done", !.outcome = [kind |-> "threw", v |-> "Error: " \o e]],
     logs |-> <<>>, sinks |-> <<>>, console |-> {}]

\* The awaited call of the wrapped method raised `e`: nothing catches it
\* in the apply trap (or in the tool wrapper), and the call rejects with it.
MethodRaised(c, e) == Step(Threw(c, e), <<>>, <<>>, {})

\* The wrapped method settles for call i, which resumes after its await.
MethodSettle(i, r) ==
    LET c  == calls[i]
        c1 == [c EXCEPT !.result = r]
    IN /\ i \in 1..Len(calls)
       /\ c.pc = "method"
       /\ r \in MethodResults(c.params)
       /\ Commit(i, IF r.kind = "error" THEN MethodRaised(c1, r.v)
                    ELSE IF r.kind = "emitter"
                    THEN Step([c1 EXCEPT !.pc = "streaming"], <<>>, <<>>, {})
                    ELSE IF c.kind = "proxy" THEN ProxyResponse(c1, r.v)
                    ELSE ToolResponse(c1, r.v))
       /\ UNCHANGED <<client, logger, session, sims, held, ended, now, uuids>>

\* The 'data' listener with one `fullResponse` for all the calls, as if it
\* were a field of the client and not a local of the apply trap: the text of
\* a chunk is added to what every streaming call accumulates.
StreamDataShared(i, chunk) ==
    /\ i \in 1..Len(calls)
    /\ calls[i].pc = "streaming"
    /\ calls[i].chunks < MaxChunks
    /\ calls' = [j \in 1..Len(calls) |->
                   IF j = i
                   THEN [calls[j] EXCEPT !.fullResponse = @ \o Utf8Decode(chunk),
                                         !.emitted = @ \o chunk, !.chunks = @ + 1]
                   ELSE IF calls[j].pc = "streaming"
                   THEN [calls[j] EXCEPT !.fullResponse = @ \o Utf8Decode(chunk)]
                   ELSE calls[j]]
    /\ UNCHANGED <<client, logger, session, logs, sims, sinks, console, held, ended, now, uuids>>

\* stream.on('data', chunk => { fullResponse += chunk.toString() })
StreamData(i, chunk) ==
    /\ i \in 1..Len(calls)
    /\ calls[i].pc = "streaming"
    /\ calls[i].chunks < MaxChunks
    /\ calls' = [calls EXCEPT ![i].fullResponse = @ \o Utf8Decode(chunk),
                              ![i].emitted = @ \o chunk, ![i].chunks = @ + 1]
    /\ UNCHANGED <<client, logger, session, logs, sims, sinks, console, held, ended, now, uuids>>

\* stream.on('end', ...)
StreamEnd(i) ==
    /\ i \in 1..Len(calls)
    /\ calls[i].pc = "streaming"
    /\ Commit(i, ProxyStreamEnd(calls[i]))
    /\ UNCHANGED <<client, logger, session, sims, held, ended, now, uuids>>

\* The emitter signals 'error' and emits nothing more.  Lines 250-270
\* register listeners for 'data' and 'end' only and never reject the promise:
\* the promise the call awaits is never settled.
StreamError(i) ==
    /\ i \in 1..Len(calls)
    /\ calls[i].pc = "streaming"
    /\ calls' = [calls EXCEPT ![i].pc = "hung"]
    /\ UNCHANGED <<client, logger, session, logs, sims, sinks, console, held, ended, now, uuids>>

\* ------------------------------------------------------------ specification
\* The state the constructor leaves (lines 40-48), for a wrapped client among
\* `clients` and with or without a logger.
InitWith(clients, loggers) ==
    /\ client \in clients
    /\ logger \in loggers
    /\ sessionType = "real"
    /\ sessionId = EmptyString
    /\ recordId = EmptyString
    /\ sessionParentId = EmptyString
    /\ datasetId = EmptyString
    /\ calls = <<>>
    /\ logs = <<>>
    /\ sims = <<>>
    /\ sinks = <<>>
    /\ console = {}
    /\ held = <<>>
    /\ ended = {}
    /\ now = 0
    /\ uuids = 0

Init == InitWith({PlainClient}, BOOLEAN)

\* The caller awaits each call before it makes the next one.
CanCall == Len(calls) < MaxCalls /\ \A i \in 1..Len(calls) : calls[i].pc = "done"

\* A caller that may start a session and makes calls through the proxy and
\* through a function wrapped by tool(), each of which runs to its end.
Next ==
    \/ \E t \in TypeArgs :
          Len(held) < MaxSessions /\ StartSession("d1", Undef, Undef, Undef, t)
    \/ \E path \in {ChatCreate, NoSuchPath}, params \in {Undef, "plain", "stream"} :
          CanCall /\ ProxyInvoke(path, params, FALSE, Undef)
    \/ \E a \in {Undef, "plain"}, dev \in BOOLEAN :
          CanCall /\ ToolInvoke(a, 0, dev)
    \/ \E i \in 1..Len(calls), answer \in GateAnswers : GateRespond(i, answer)
    \/ \E i \in 1..Len(calls) : \E r \in MethodResults(calls[i].params) : MethodSettle(i, r)
    \/ \E i \in 1..Len(calls), chunk \in Chunks : StreamData(i, chunk)
    \/ \E i \in 1..Len(calls) : StreamEnd(i)

Spec == Init /\ [][Next]_vars

\* A caller of the proxy, with the requests to the log endpoint and to the
\* sink settling, each with success or failure.
NextDelivery ==
    \/ Len(held) < MaxSessions /\ StartSession("d1", Undef, Undef, Undef, "test")
    \/ \E path \in {ChatCreate, NoSuchPath}, params \in {Undef, "plain", "stream"} :
          CanCall /\ ProxyInvoke(path, params, FALSE, Undef)
    \/ \E i \in 1..Len(calls), answer \in GateAnswers : GateRespond(i, answer)
    \/ \E i \in 1..Len(calls) : \E r \in MethodResults(calls[i].params) : MethodSettle(i, r)
    \/ \E i \in 1..Len(calls), chunk \in {<<"{\"a\":1">>, <<"}">>} : StreamData(i, chunk)
    \/ \E i \in 1..Len(calls) : StreamEnd(i)
    \/ \E i \in 1..Len(logs), ok \in BOOLEAN : LogSettle(i, ok)
    \/ \E i \in 1..Len(sinks), ok \in BOOLEAN : SinkSettle(i, ok)

SpecDelivery == Init /\ [][NextDelivery]_vars

\* A caller that manages sessions: any arguments of startSession, endSession
\* with a header set startSession returned, and proxied calls, with or
\* without explicit headers, that the gate lets through and that return.
NextSession ==
    \/ \E d \in DatasetIdArgs, r \in RecordIdArgs, s \in SessionIdArgs,
          p \in ParentIdArgs, t \in TypeArgs :
          Len(held) < MaxSessions /\ StartSession(d, r, s, p, t)
    \/ \E h \in 1..Len(held) : EndSession(h)
    \/ \E w \in BOOLEAN : CanCall /\ ProxyInvoke(ChatCreate, "plain", w, Undef)
    \/ \E i \in 1..Len(calls) :
          GateRespond(i, [kind |-> "ok", run_model |-> "true", response |-> Undef])
    \/ \E i \in 1..Len(calls) : MethodSettle(i, [kind |-> "value", v |-> "plain"])

SpecSession == InitWith({PlainClient}, {FALSE}) /\ [][NextSession]_vars

\* A caller that reassigns the session: one more startSession than in
\* SpecSession, then endSession and proxied calls in a session that is not a
\* test session.
NextReassign ==
    \/ \E d \in DatasetIdArgs, r \in RecordIdArgs, s \in SessionIdArgs, p \in ParentIdArgs :
          Len(held) < MaxSessions + 1 /\ StartSession(d, r, s, p, Undef)
    \/ \E h \in 1..Len(held) : EndSession(h)
    \/ CanCall /\ ProxyInvoke(ChatCreate, "plain", FALSE, Undef)
    \/ \E i \in 1..Len(calls) : MethodSettle(i, [kind |-> "value", v |-> "plain"])

SpecReassign == InitWith({PlainClient}, {FALSE}) /\ [][NextReassign]_vars

\* A caller that follows the README: client.setSession({sessionId,
\* sessionName}), then calls, on a client with or without a method of its own
\* called setSession.
NextSetSession ==
    \/ \E t \in TypeArgs :
          Len(held) < MaxSessions /\ StartSession("d1", Undef, "s1", Undef, t)
    \/ Len(calls) < MaxCalls + 1 /\ ProxyInvoke(SetSessionPath, "session", FALSE, Undef)
    \/ Len(calls) < MaxCalls + 1 /\ ProxyInvoke(ChatCreate, "plain", FALSE, Undef)
    \/ \E i \in 1..Len(calls), rm \in {"true", "false"} :
          GateRespond(i, [kind |-> "ok", run_model |-> rm, response |-> "simulated"])
    \/ \E i \in 1..Len(calls) : MethodSettle(i, [kind |-> "value", v |-> "plain"])

SpecSetSession == InitWith({PlainClient, SessionfulClient}, {FALSE}) /\ [][NextSetSession]_vars

\* A caller that changes the wrapped object between and during its proxied
\* calls, in a real or a test session.
NextLazy ==
    \/ \E t \in TypeArgs :
          Len(held) < MaxSessions /\ StartSession("d1", Undef, Undef, Undef, t)
    \/ \E fn \in Functions : AddSub(fn)
    \/ \E fn \in Functions : ReplaceMethod(ChatCreate, fn)
    \/ \E path \in {ChatCreate, NewSubMethod} :
          /\ Len(calls) < MaxCalls + 1
          /\ \A i \in 1..Len(calls) : calls[i].pc = "done"
          /\ ProxyInvoke(path, "plain", FALSE, Undef)
    \/ \E i \in 1..Len(calls) :
          GateRespond(i, [kind |-> "ok", run_model |-> "true", response |-> Undef])
    \/ \E i \in 1..Len(calls) : MethodSettle(i, [kind |-> "value", v |-> "plain"])

SpecLazy == InitWith({PlainClient}, {FALSE}) /\ [][NextLazy]_vars

\* A caller that calls, through the proxy, paths that lead to a method and
\* paths that do not, in a real or a test session, with or without a logger.
NextNotFound ==
    \/ \E t \in TypeArgs :
          Len(held) < MaxSessions /\ StartSession("d1", Undef, Undef, Undef, t)
    \/ \E path \in UncallablePaths \cup {ChatCreate}, params \in {Undef, "plain", "stream"} :
          CanCall /\ ProxyInvoke(path, params, FALSE, Undef)
    \/ \E i \in 1..Len(calls), answer \in GateAnswers : GateRespond(i, answer)
    \/ \E i \in 1..Len(calls) : \E r \in MethodResults(calls[i].params) : MethodSettle(i, r)

SpecNotFound == InitWith({PlainClient, ValuedClient}, BOOLEAN) /\ [][NextNotFound]_vars

\* A caller that asks for a stream; the emitter the wrapped method returns
\* emits bytes of Payload, cut into chunks anywhere, then its 'end'.
NextStream ==
    \/ CanCall /\ ProxyInvoke(ChatCreate, "stream", FALSE, Undef)
    \/ \E i \in 1..Len(calls) : MethodSettle(i, [kind |-> "emitter", v |-> Undef])
    \/ \E i \in 1..Len(calls), chunk \in PayloadChunks : StreamData(i, chunk)
    \/ \E i \in 1..Len(calls) : StreamEnd(i)

SpecStream == InitWith({PlainClient}, BOOLEAN) /\ [][NextStream]_vars

\* A caller that starts sessions of either type, one after the other, and
\* makes calls through the proxy, with or without {dev: true}; the gate
\* answers and the method returns.
NextGate ==
    \/ \E t \in TypeArgs :
          Len(held) < MaxSessions + 1 /\ StartSession("d1", Undef, Undef, Undef, t)
    \/ \E path \in {ChatCreate, NoSuchPath}, o \in OptionsArgs :
          /\ Len(calls) < MaxCalls + 1
          /\ \A i \in 1..Len(calls) : calls[i].pc = "done"
          /\ ProxyInvoke(path, "plain", FALSE, o)
    \/ \E i \in 1..Len(calls), rm \in {"true", "false"} :
          GateRespond(i, [kind |-> "ok", run_model |-> rm, response |-> "simulated"])
    \/ \E i \in 1..Len(calls) : MethodSettle(i, [kind |-> "value", v |-> "plain"])

SpecGate == InitWith({PlainClient}, {FALSE}) /\ [][NextGate]_vars

\* A caller that starts sessions of either type and calls functions wrapped
\* by tool({dev}), with or without a logger; the gate answers and the
\* original function returns a value or undefined.
NextTool ==
    \/ \E t \in TypeArgs :
          Len(held) < MaxSessions /\ StartSession("d1", Undef, Undef, Undef, t)
    \/ \E dev \in BOOLEAN :
          /\ Len(calls) < MaxCalls + 1
          /\ \A i \in 1..Len(calls) : calls[i].pc = "done"
          /\ ToolInvoke("plain", 0, dev)
    \/ \E i \in 1..Len(calls), rm \in {"true", "false"} :
          GateRespond(i, [kind |-> "ok", run_model |-> rm, response |-> "simulated"])
    \/ \E i \in 1..Len(calls), v \in {Undef, "plain"} :
          MethodSettle(i, [kind |-> "value", v |-> v])

SpecTool == InitWith({PlainClient}, BOOLEAN) /\ [][NextTool]_vars

\* A caller of HeliconeLogger.log itself, with any record, that does not wait
\* for one log to end before the next; the requests to the sink succeed or
\* fail.
NextSink ==
    \/ \E params \in {Undef, "plain"}, response \in {Undef, Null, "plain", "withMeta"} :
          Len(calls) < MaxCalls + 1 /\ LoggerLog(params, response)
    \/ \E i \in 1..Len(sinks), ok \in BOOLEAN : SinkSettle(i, ok)

SpecSink == InitWith({PlainClient}, {TRUE}) /\ [][NextSink]_vars

\* The steps of a call that its collaborators take: the gate answers, the
\* wrapped method settles, the stream emits and ends.
CallSteps ==
    \/ \E i \in 1..Len(calls), answer \in GateAnswers : GateRespond(i, answer)
    \/ \E i \in 1..Len(calls) : \E r \in MethodResults(calls[i].params) : MethodSettle(i, r)
    \/ \E i \in 1..Len(calls), chunk \in {<<"{\"a\":1">>, <<"}">>} : StreamData(i, chunk)
    \/ \E i \in 1..Len(calls) : StreamEnd(i)

\* The requests to the log endpoint and to the sink complete, or fail.
DeliverySteps ==
    \/ \E i \in 1..Len(logs), ok \in BOOLEAN : LogSettle(i, ok)
    \/ \E i \in 1..Len(sinks), ok \in BOOLEAN : SinkSettle(i, ok)

\* A caller of the proxy in a real or a test session.  The collaborators of a
\* call keep answering; nothing says that a request to the log endpoint or to
\* the sink ever completes.
NextForget ==
    \/ \E t \in TypeArgs :
          Len(held) < MaxSessions /\ StartSession("d1", Undef, Undef, Undef, t)
    \/ \E params \in {"plain", "stream"} : CanCall /\ ProxyInvoke(ChatCreate, params, FALSE, Undef)
    \/ CallSteps
    \/ DeliverySteps

SpecForget == Init /\ [][NextForget]_vars /\ WF_vars(CallSteps)

\* A caller that uses every operation of the client: startSession and
\* endSession, calls through the proxy and through tool(), with the gate
\* answering, the method settling and the sends to the log endpoint (in the
\* order they were made) and to the sink completing or failing.
NextFrame ==
    \/ Len(held) < MaxSessions /\ StartSession("d1", Undef, Undef, "p1", "test")
    \/ \E h \in 1..Len(held) : EndSession(h)
    \/ CanCall /\ ProxyInvoke(ChatCreate, "plain", FALSE, Undef)
    \/ CanCall /\ ToolInvoke("plain", 0, TRUE)
    \/ \E i \in 1..Len(calls), answer \in GateAnswers :
          answer.response = Undef /\ GateRespond(i, answer)
    \/ \E i \in 1..Len(calls), r \in {[kind |-> "value", v |-> "plain"],
                                        [kind |-> "error", v |-> "E1"]} : MethodSettle(i, r)
    \/ \E i \in 1..Len(logs), ok \in BOOLEAN :
          /\ \A j \in 1..(i - 1) : logs[j].req.status = "settled"
          /\ LogSettle(i, ok)
    \/ \E i \in 1..Len(sinks) : SinkSettle(i, TRUE)

SpecFrame == InitWith({PlainClient}, {TRUE}) /\ [][NextFrame]_vars

\* A caller of the proxy in a test session, with or without a logger, while
\* time passes: the gate answers, the method returns a value or a stream,
\* and the stream emits and ends.
NextTiming ==
    \/ Len(held) < MaxSessions /\ StartSession("d1", Undef, Undef, Undef, "test")
    \/ \E params \in {"plain", "stream"} : CanCall /\ ProxyInvoke(ChatCreate, params, FALSE, Undef)
    \/ \E i \in 1..Len(calls), rm \in {"true", "false"} :
          GateRespond(i, [kind |-> "ok", run_model |-> rm, response |-> "simulated"])
    \/ \E i \in 1..Len(calls), r \in {[kind |-> "value", v |-> "plain"],
                                        [kind |-> "emitter", v |-> Undef]} : MethodSettle(i, r)
    \/ \E i \in 1..Len(calls), chunk \in {<<"{\"a\":1">>, <<"}">>} : StreamData(i, chunk)
    \/ \E i \in 1..Len(calls) : StreamEnd(i)
    \/ Tick

SpecTiming == InitWith({PlainClient}, BOOLEAN) /\ [][NextTiming]_vars

\* The steps of an emitter: it emits data, its completion signal, or an
\* error after which it emits nothing.
EmitterSteps ==
    \/ \E i \in 1..Len(calls), chunk \in {<<"{\"a\":1">>, <<"}">>} : StreamData(i, chunk)
    \/ \E i \in 1..Len(calls) : StreamEnd(i)
    \/ \E i \in 1..Len(calls) : StreamError(i)

\* The gate answers and the wrapped method settles.
AnswerSteps ==
    \/ \E i \in 1..Len(calls), answer \in GateAnswers : GateRespond(i, answer)
    \/ \E i \in 1..Len(calls) : \E r \in MethodResults(calls[i].params) : MethodSettle(i, r)

\* A caller of the proxy in a real or a test session, whose gate always
\* answers and whose method always settles; an emitter keeps emitting until
\* its completion signal or its error.
NextEmitter ==
    \/ \E t \in TypeArgs :
          Len(held) < MaxSessions /\ StartSession("d1", Undef, Undef, Undef, t)
    \/ \E params \in {"plain", "stream"} : CanCall /\ ProxyInvoke(ChatCreate, params, FALSE, Undef)
    \/ AnswerSteps
    \/ EmitterSteps

SpecEmitter == Init /\ [][NextEmitter]_vars /\ WF_vars(AnswerSteps) /\ WF_vars(EmitterSteps)

\* The bytes a well-behaved emitter sends before its completion signal: one
\* JSON text, in one chunk or in two.
Streams == {<<"null">>, <<"{\"a\":1", "}">>}

\* `bytes` is the beginning of one of Streams.
BeginsStream(bytes) ==
    \E st \in Streams : Len(bytes) <= Len(st) /\ SubSeq(st, 1, Len(bytes)) = bytes

\* Callers that ask for streams without waiting for one another, while time
\* passes: the calls are in flight at once and the events of their emitters,
\* each sending one of Streams and ending at any point of it, interleave in
\* any order.
NextConcurrent ==
    \/ Len(calls) < MaxCalls + 1 /\ ProxyInvoke(ChatCreate, "stream", FALSE, Undef)
    \/ \E i \in 1..Len(calls) : MethodSettle(i, [kind |-> "emitter", v |-> Undef])
    \/ \E i \in 1..Len(calls), chunk \in Chunks :
          BeginsStream(calls[i].emitted \o chunk) /\ StreamData(i, chunk)
    \/ \E i \in 1..Len(calls) : StreamEnd(i)
    \/ Tick

SpecConcurrent == InitWith({PlainClient}, BOOLEAN) /\ [][NextConcurrent]_vars

\* ------------------------------------------------------------------ claims
ProxyCalls == {i \in 1..Len(calls) : calls[i].kind = "proxy"}

\* The path of call c names a method of the wrapped client.
IsMethod(c) == TypeOf(client, c.path) = "function"

\* C1 (Transparency), as claimed: in a session of type 'real', a proxied call
\* on a method path with params that do not ask for a stream, among them no
\* params at all, invokes the wrapped method exactly once and returns exactly
\* the value the method returned.
C1_Transparency ==
    \A i \in ProxyCalls :
        LET c == calls[i]
        IN (/\ c.pc = "done"
            /\ ~c.isDev
            /\ IsMethod(c)
            /\ (c.params = Undef \/ ParamsStream(c.params) # "true"))
           => /\ c.invoked = 1
              /\ c.result.kind = "value" => c.outcome = [kind |-> "returned", v |-> c.result.v]

\* C2 (Simulation short-circuit), as claimed: once the gate has answered
\* {run_model: false, response: R}, the wrapped method is not invoked and the
\* call has returned exactly R, with or without a logger and for an absent R.
C2_SimulationShortCircuit ==
    \A i \in ProxyCalls :
        LET c == calls[i]
        IN (c.gate = "ok" /\ c.devResponse.run_model = "false")
           => /\ c.invoked = 0
              /\ c.pc = "done"
              /\ c.outcome = [kind |-> "returned", v |-> c.devResponse.response]

\* C3 (Simulation failure isolation): a call, proxied or through tool(), whose
\* simulation request found the endpoint unreachable or got a non-success
\* status has ended by throwing the gate's error, and the wrapped method was
\* never invoked for it.
C3_SimulationFailureIsolation ==
    \A i \in 1..Len(calls) :
        LET c == calls[i]
        IN c.gate \in {"unreachable", "status500"}
           => /\ c.pc = "done"
              /\ c.outcome.kind = "threw"
              /\ c.outcome.v \in {"FetchError", "Tunerkit API request failed"}
              /\ c.invoked = 0
              /\ c.result.kind = "none"

\* C3's case: a proxied call whose gate answered with a non-success status
\* has thrown.
C3_Witness ==
    \E i \in ProxyCalls :
        /\ calls[i].gate = "status500"
        /\ calls[i].outcome = [kind |-> "threw", v |-> "Tunerkit API request failed"]

\* The tool variant of C3's case, with the endpoint unreachable.
C3_ToolCase ==
    \E i \in 1..Len(calls) :
        /\ calls[i].kind = "tool"
        /\ calls[i].gate = "unreachable"
        /\ calls[i].outcome.kind = "threw"

\* What a proxied call that has ended must have ended with, read off what the
\* call was given and what its collaborators answered: the path, the params,
\* the session type at invocation, the gate's answer, the wrapped method's
\* result, the stream's text and whether a logger is attached.  No state of a
\* send to the log endpoint or to the sink appears in it.
SinkOr(v) ==
    IF logger /\ Nullish(v) THEN [kind |-> "threw", v |-> "TypeError"]
    ELSE [kind |-> "returned", v |-> v]

OutcomeDetermined(c) ==
    IF ~IsMethod(c) THEN [kind |-> "threw", v |-> "Method not found on client"]
    ELSE IF c.gate = "unreachable" THEN [kind |-> "threw", v |-> "FetchError"]
    ELSE IF c.gate = "status500" THEN [kind |-> "threw", v |-> "Tunerkit API request failed"]
    ELSE IF c.gate = "ok" /\ c.devResponse.run_model = "false" THEN SinkOr(c.devResponse.response)
    ELSE IF c.params = Undef THEN [kind |-> "threw", v |-> "TypeError"]
    ELSE IF c.result.kind = "error" THEN [kind |-> "threw", v |-> c.result.v]
    ELSE IF c.result.kind = "emitter"
         THEN IF JSONParse(c.fullResponse) = "SyntaxError"
              THEN [kind |-> "pending", v |-> Undef]
              ELSE SinkOr(JSONParse(c.fullResponse))
    ELSE SinkOr(c.result.v)

\* C4 (Logging isolation): whether the sends to the log endpoint and to the
\* sink succeed, fail or are still in flight, a proxied call that has ended
\* (returned, thrown, or stopped on a stream that does not parse) ended with
\* the value or error that its inputs and its collaborators' answers determine.
C4_LoggingIsolation ==
    \A i \in ProxyCalls :
        calls[i].pc \in {"done", "hung"} => calls[i].outcome = OutcomeDetermined(calls[i])

\* C4's case: a call has returned a value although the send of its log record
\* failed and was reported, every send having settled.
C4_Witness ==
    /\ \E i \in ProxyCalls : calls[i].outcome.kind = "returned"
    /\ \E k \in 1..Len(logs) : logs[k].op = "call"
    /\ \A k \in 1..Len(logs) : logs[k].req.status = "settled"
    /\ console = {"Error logging to Tunerkit:", "Error making request to Helicone log endpoint:"}

\* C5: an error raised by the wrapped method of a proxied call is the error
\* the call throws, in a real session and in a test session whose gate let
\* the call through.
C5_MethodErrorPropagates ==
    \A i \in ProxyCalls :
        calls[i].result.kind = "error"
        => /\ calls[i].pc = "done"
           /\ calls[i].outcome = [kind |-> "threw", v |-> calls[i].result.v]

\* C5's case: in a test session, the gate answered run_model = true, the
\* wrapped method was invoked and raised, and the call threw.
C5_Witness ==
    \E i \in ProxyCalls :
        /\ calls[i].isDev
        /\ calls[i].devResponse.run_model = "true"
        /\ calls[i].invoked = 1
        /\ calls[i].result = [kind |-> "error", v |-> "E1"]
        /\ calls[i].outcome.kind = "threw"

\* Two header values agree: they are equal, or both stand for no value.
Same(a, b) == a = b \/ (Falsy(a) /\ Falsy(b))

\* The requests call i sent to the log endpoint and to the simulation endpoint.
RequestsOf(i) ==
    {logs[k].req.headers : k \in {x \in 1..Len(logs) : logs[x].op = "call" /\ logs[x].id = i}}
    \cup {sims[k].req.headers : k \in {x \in 1..Len(sims) : sims[x].id = i}}

\* C6 (Header merge precedence), as claimed: for a proxied call made in an
\* active session with explicit headers as second argument, every request of
\* the call to the simulation and log endpoints carries the explicit value of
\* each field the explicit headers define, and the session's value of each
\* correlation field they do not define.
C6_HeaderMergePrecedence ==
    \A i \in ProxyCalls :
        LET c == calls[i]
        IN (c.started >= 1 /\ DOMAIN c.explicit # {})
           => \A h \in RequestsOf(i) :
                 /\ \A k \in DOMAIN c.explicit : Get(h, k) = c.explicit[k]
                 /\ \A k \in (CorrelationFields \ DOMAIN c.explicit) \cap DOMAIN h :
                       Same(h[k], Get(held[c.started], k))

\* The places in `logs` of the boundary events of the session that
\* startSession call number h opened.
Boundary(op, h) == {k \in 1..Len(logs) : logs[k].op = op /\ logs[k].id = h}

\* The correlation ids a request carries.
Correlation(headers) == [f \in CorrelationFields \cap DOMAIN headers |-> headers[f]]

\* C7 (Session boundary pairing): each startSession emitted one event tagged
\* __START__; an endSession with the headers it returned emitted one event
\* tagged __END__, after it, with the same dataset, session, record, type and
\* parent ids (those of the headers returned); there is no other tagged
\* event, and no log record of a proxied call has a Tunerkit-Session-Path.
C7_SessionBoundaryPairing ==
    /\ \A h \in 1..Len(held) :
          /\ Cardinality(Boundary("startSession", h)) = 1
          /\ Cardinality(Boundary("endSession", h)) = IF h \in ended THEN 1 ELSE 0
          /\ \A s \in Boundary("startSession", h) :
                /\ Get(logs[s].req.headers, H_SessionPath) = "__START__"
                /\ Correlation(logs[s].req.headers) = Correlation(CleanedHeaders(held[h]))
                /\ \A e \in Boundary("endSession", h) :
                      /\ s < e
                      /\ Get(logs[e].req.headers, H_SessionPath) = "__END__"
                      /\ Correlation(logs[e].req.headers) = Correlation(logs[s].req.headers)
    /\ Cardinality({k \in 1..Len(logs) : H_SessionPath \in DOMAIN logs[k].req.headers})
          = Len(held) + Cardinality(ended)
    /\ \A k \in 1..Len(logs) :
          logs[k].op = "call" => H_SessionPath \notin DOMAIN logs[k].req.headers

\* C7's case: a session with a parent id was started and ended, and the log
\* record of a proxied call lies between its two boundary events.
C7_Witness ==
    /\ 1 \in ended
    /\ held[1][H_SessionParentId] = "p1"
    /\ \E s \in Boundary("startSession", 1), e \in Boundary("endSession", 1) :
          \E k \in 1..Len(logs) : s < k /\ k < e /\ logs[k].op = "call"

\* C8, as claimed: after startSession the session fields hold the five values
\* of the header set it returned, and every proxied call invoked since
\* attaches exactly those values.
C8_StartSessionStoresContext ==
    /\ Len(held) >= 1 =>
          LET h == held[Len(held)]
          IN /\ Same(datasetId, h[H_DatasetId])
             /\ Same(sessionId, h[H_SessionId])
             /\ Same(recordId, h[H_RecordId])
             /\ Same(sessionType, h[H_SessionType])
             /\ Same(sessionParentId, h[H_SessionParentId])
    /\ \A i \in ProxyCalls :
          calls[i].started >= 1
          => \A f \in CorrelationFields : Same(Get(calls[i].headers, f), held[calls[i].started][f])

\* The __END__ event of endSession(headers of session h) carries the ids of
\* those headers.
EndCarriesPassedIds(h) ==
    \A e \in Boundary("endSession", h) :
        /\ Get(logs[e].req.headers, H_SessionPath) = "__END__"
        /\ Correlation(logs[e].req.headers) = Correlation(CleanedHeaders(held[h]))

\* C9, as claimed: after startSession(A), startSession(B) and endSession(headers
\* of A), the __END__ event carries A's ids and the proxied calls invoked
\* after startSession(B) carry B's ids.
C9_EndSessionUsesPassedHeaders ==
    (Len(held) >= 2 /\ 1 \in ended)
    => /\ EndCarriesPassedIds(1)
       /\ \A i \in ProxyCalls :
             calls[i].started = 2
             => \A f \in CorrelationFields : Same(Get(calls[i].headers, f), held[2][f])

\* The part of C9 about endSession alone.
C9_EndEventPart == \A h \in ended : EndCarriesPassedIds(h)

\* C10, as claimed: client.setSession({sessionId, sessionName}) invokes nothing
\* on the wrapped client, emits no boundary event, makes sessionId the active
\* session id, and every proxied call made afterwards in that session carries
\* it.
C10_SetSession ==
    \A i \in ProxyCalls :
        calls[i].path = SetSessionPath
        => /\ calls[i].invoked = 0
           /\ \A k \in 1..Len(logs) :
                 (logs[k].op = "call" /\ logs[k].id = i)
                 => H_SessionPath \notin DOMAIN logs[k].req.headers
           /\ Len(held) = calls[i].started => sessionId = NewSessionId
           /\ \A j \in ProxyCalls :
                 (j > i /\ calls[j].started = calls[i].started)
                 => Get(calls[j].headers, H_SessionId) = NewSessionId

\* C11 (Lazy path resolution): a step in which a proxied call invokes the
\* wrapped client invokes the function the wrapped object holds at the call's
\* path at that moment; and a proxied call in a real session on a path where
\* the wrapped object now holds a function, added or replaced since
\* construction or not, invokes it and does not fail as not found.
C11_LazyPathResolution ==
    [][\A i \in 1..Len(calls') :
          LET d == calls'[i]
              fresh == i > Len(calls)
          IN /\ (d.kind = "proxy" /\ d.invoked = 1 /\ (fresh \/ calls[i].invoked = 0))
                => /\ d.target = client[d.path]
                   /\ d.target \in Functions
             /\ (fresh /\ d.kind = "proxy" /\ ~d.isDev /\ TypeOf(client, d.path) = "function")
                => d.invoked = 1]_vars

\* C11's case: two calls on chat.create returned, the first having invoked the
\* function there at construction and the second the one that replaced it,
\* on a wrapped object that was given a sub-object since.
C11_Witness ==
    /\ \E i, j \in ProxyCalls :
          /\ i < j
          /\ calls[i].path = ChatCreate /\ calls[i].target = "fn1"
          /\ calls[j].path = ChatCreate /\ calls[j].target = "fn2"
          /\ calls[j].outcome.kind = "returned"
    /\ NewSubMethod \in DOMAIN client

\* The other half of C11's case: a call on newSub.method returned.
C11_AddedSub ==
    \E i \in ProxyCalls : calls[i].path = NewSubMethod /\ calls[i].outcome.kind = "returned"

\* The path has a missing segment, or its terminal value is not callable.
Uncallable(obj, path) ==
    \/ \E k \in 1..Len(path) : SubSeq(path, 1, k) \notin DOMAIN obj
    \/ obj[path] \notin Functions

\* C12 (MethodNotFound): a step that invokes a proxied call on a path with a
\* missing segment or a terminal that is not callable ends the call at once
\* with the method-not-found error, whatever the session type, with no method
\* of the wrapped client invoked, no request to the simulation endpoint and
\* no record sent to the log endpoint or to the sink; and a call that has
\* ended stays as it ended.
C12_MethodNotFound ==
    [][\A i \in 1..Len(calls') :
          /\ (i > Len(calls) /\ calls'[i].kind = "proxy" /\ Uncallable(client, calls'[i].path))
             => /\ calls'[i].pc = "done"
                /\ calls'[i].outcome = [kind |-> "threw", v |-> "Method not found on client"]
                /\ calls'[i].invoked = 0
                /\ sims' = sims /\ logs' = logs /\ sinks' = sinks
          /\ (i <= Len(calls) /\ calls[i].pc = "done") => calls'[i] = calls[i]]_vars

\* C12's case: in a test session with a logger attached, a call on
\* client.chat.nosuch threw the method-not-found error, and no request went to
\* the simulation endpoint.
C12_Witness ==
    /\ logger
    /\ sessionType = "test"
    /\ sims = <<>>
    /\ \E i \in ProxyCalls :
          /\ calls[i].path = <<"chat", "nosuch">>
          /\ calls[i].isDev
          /\ calls[i].outcome = [kind |-> "threw", v |-> "Method not found on client"]

\* The proxied calls whose wrapped method returned an emitter.
StreamedCalls == {i \in ProxyCalls : calls[i].result.kind = "emitter"}

\* C13 (Stream accumulation), as claimed: a streamed call that returned has
\* returned the parse of the text of all the data its stream emitted, in
\* order, wherever the chunk boundaries fell.
C13_StreamAccumulation ==
    \A i \in StreamedCalls :
        calls[i].outcome.kind = "returned"
        => calls[i].outcome.v = JSONParse(Utf8Decode(calls[i].emitted))

\* The part of C13 about the accumulated text: the call returns the parse of
\* the concatenation, in arrival order, of the text of each chunk.
C13_ParsesAccumulatedText ==
    \A i \in StreamedCalls :
        calls[i].outcome.kind = "returned" => calls[i].outcome.v = JSONParse(calls[i].fullResponse)

\* C14 (StreamDecodeError), as claimed: a streamed call whose stream has
\* ended with accumulated text that does not parse has ended by throwing an
\* error to its caller.
C14_StreamDecodeError ==
    \A i \in StreamedCalls :
        (calls[i].pc # "streaming" /\ JSONParse(calls[i].fullResponse) = "SyntaxError")
        => /\ calls[i].pc = "done"
           /\ calls[i].outcome.kind = "threw"

\* What the code does in C14's case: the error is raised inside the 'end'
\* listener, before resolve; the promise the call awaits is never settled and
\* the call neither returns nor throws.
C14_StaysPending ==
    \A i \in StreamedCalls :
        (calls[i].pc # "streaming" /\ JSONParse(calls[i].fullResponse) = "SyntaxError")
        => /\ calls[i].pc = "hung"
           /\ calls[i].outcome.kind = "pending"
           /\ \A k \in 1..Len(logs) : logs[k].id # i

\* How call c ends when no sink is attached, read off the gate's answer and
\* the wrapped method's result; for the ends no response is involved in (a
\* path that is not a method, a gate failure, absent params, a stream that
\* does not parse), the end it had.
OutcomeWithoutSink(c) ==
    IF c.gate = "ok" /\ Falsy(c.devResponse.run_model)
    THEN [kind |-> "returned", v |-> c.devResponse.response]
    ELSE IF c.result.kind = "value" THEN [kind |-> "returned", v |-> c.result.v]
    ELSE IF c.result.kind = "error" THEN [kind |-> "threw", v |-> c.result.v]
    ELSE IF c.result.kind = "emitter" /\ JSONParse(c.fullResponse) # "SyntaxError"
    THEN [kind |-> "returned", v |-> JSONParse(c.fullResponse)]
    ELSE c.outcome

\* C15, as claimed: a proxied or tool call that has ended, with a sink
\* attached or not, ended as the same call ends with no sink attached, for
\* every response, null, undefined and absent ones included.
C15_SinkNeverAltersOutcome ==
    \A i \in 1..Len(calls) :
        calls[i].pc = "done" => calls[i].outcome = OutcomeWithoutSink(calls[i])

\* With no sink attached, calls do end as OutcomeWithoutSink says.
C15_WithoutSink == ~logger => C15_SinkNeverAltersOutcome

\* C16 (Log and return path never diverge), as claimed: every record sent
\* for a call, to the log endpoint and to the sink, has as response the value
\* that call returned to its caller.
C16_LogAndReturnAgree ==
    /\ \A k \in 1..Len(logs) :
          logs[k].op = "call"
          => \E v \in {calls[logs[k].id].outcome.v} :
                /\ calls[logs[k].id].outcome.kind = "returned"
                /\ logs[k].req.body.response = JSONProperty(v)
    /\ \A k \in 1..Len(sinks) :
          \E v \in {calls[sinks[k].id].outcome.v} :
             /\ calls[sinks[k].id].outcome.kind = "returned"
             /\ sinks[k].req.body.providerResponse = v

\* C16 where no sink is attached, and C16 for the calls that returned.
C16_WithoutSink == ~logger => C16_LogAndReturnAgree

C16_WhenReturned ==
    /\ \A k \in 1..Len(logs) :
          (logs[k].op = "call" /\ calls[logs[k].id].outcome.kind = "returned")
          => logs[k].req.body.response = JSONProperty(calls[logs[k].id].outcome.v)
    /\ \A k \in 1..Len(sinks) :
          /\ calls[sinks[k].id].outcome.kind = "returned"
          /\ sinks[k].req.body.providerResponse = calls[sinks[k].id].outcome.v

\* The requests call i sent to the simulation endpoint, among those of `s`.
ContactsOf(s, i) == Cardinality({k \in 1..Len(s) : s[k].id = i})

\* The last startSession passed type 'test'.
TestSession == Len(held) >= 1 /\ held[Len(held)][H_SessionType] = "test"

C18_PerCallDevMode ==
    \A i \in ProxyCalls :
        (calls[i].dev /\ calls[i].invoked = 1) => ContactsOf(sims, i) = 1

\* C19, as claimed: a call of a function wrapped by tool(options) sends a
\* request to the simulation endpoint exactly when options.dev is true,
\* whatever the session type; with dev false or omitted, a call that has
\* ended invoked the original function once and returned what it returned.
C19_ToolGateActivation ==
    \A i \in 1..Len(calls) :
        calls[i].kind = "tool"
        => /\ ContactsOf(sims, i) = IF calls[i].dev THEN 1 ELSE 0
           /\ (~calls[i].dev /\ calls[i].pc = "done")
              => /\ calls[i].invoked = 1
                 /\ calls[i].result.kind = "value"
                    => calls[i].outcome = [kind |-> "returned", v |-> calls[i].result.v]

\* The part of C19 about the activation of the gate and the invocation of the
\* original function.
C19_ActivationPart ==
    \A i \in 1..Len(calls) :
        calls[i].kind = "tool"
        => /\ ContactsOf(sims, i) = IF calls[i].dev THEN 1 ELSE 0
           /\ (~calls[i].dev /\ calls[i].pc = "done") => calls[i].invoked = 1
           /\ (~calls[i].dev /\ calls[i].outcome.kind = "returned")
              => calls[i].outcome.v = calls[i].result.v

\* The requests that log call i sent to the sink.
SinkRequestsOf(i) == {k \in 1..Len(sinks) : sinks[k].id = i}

\* C20: the promise a call of HeliconeLogger.log returned is never rejected;
\* it is resolved as soon as the call sent no request or its request settled,
\* with success or failure; a call with missing params has reported it, sent
\* no request, and is resolved.
C20_LogNeverRaises ==
    \A i \in 1..Len(calls) :
        LET c == calls[i]
        IN c.kind = "log"
           => /\ c.outcome.kind # "threw"
              /\ c.pc = "done" <=> c.outcome = [kind |-> "returned", v |-> Undef]
              /\ c.pc = "done" <=> \A k \in SinkRequestsOf(i) : sinks[k].req.status = "settled"
              /\ Falsy(c.params)
                 => /\ SinkRequestsOf(i) = {}
                    /\ "Request is not registered." \in console
              /\ Cardinality(SinkRequestsOf(i)) <= 1

\* C20's case: a log with an undefined response and a log whose request to
\* the sink failed are both resolved, and a log with missing params too.
C20_Witness ==
    /\ \E i, j \in 1..Len(calls) :
          /\ calls[i].kind = "log" /\ calls[i].params = "plain" /\ calls[i].response = Undef
          /\ calls[i].pc = "done"
          /\ calls[j].kind = "log" /\ SinkRequestsOf(j) # {} /\ calls[j].pc = "done"
    /\ console = {"Error making request to Helicone log endpoint:"}

\* The response call i has: the value the wrapped method returned, the
\* response of a gate that answered run_model = false, or the parse of the
\* text of a stream that ended with text that parses; "SyntaxError" when it
\* has none.
ResponseOf(i) ==
    LET c == calls[i]
    IN IF c.gate = "ok" /\ Falsy(c.devResponse.run_model) THEN c.devResponse.response
       ELSE IF c.result.kind = "value" THEN c.result.v
       ELSE IF c.result.kind = "emitter" /\ c.pc # "streaming" THEN JSONParse(c.fullResponse)
       ELSE "SyntaxError"

Produced(i) == i \in ProxyCalls /\ ResponseOf(i) # "SyntaxError"

HasReturned(i) == i \in ProxyCalls /\ calls[i].pc = "done" /\ calls[i].outcome.kind = "returned"

\* C21 (Fire-and-forget), as claimed: once a proxied call has its response,
\* it eventually returns to its caller, whether or not the requests to the
\* log endpoint and to the sink ever complete.
C21_FireAndForget == \A i \in 1..MaxCalls : Produced(i) ~> HasReturned(i)

\* What holds of C21: the same for a response that the sink, if one is
\* attached, reads `meta` of without failing.
C21_WhenSinkCanRead ==
    \A i \in 1..MaxCalls :
        (Produced(i) /\ ~(logger /\ Nullish(ResponseOf(i)))) ~> HasReturned(i)

\* The state C21 says is reachable: a call has returned while its request to the log endpoint
\* and its request to the sink are both still pending.
C21_ReturnedWhilePending ==
    \E i \in ProxyCalls :
        /\ calls[i].outcome.kind = "returned"
        /\ \E k \in 1..Len(logs) :
              logs[k].op = "call" /\ logs[k].id = i /\ logs[k].req.status = "pending"
        /\ \E k \in SinkRequestsOf(i) : sinks[k].req.status = "pending"

\* The records call i sent to the primary log endpoint.
LogRecordsOf(i) == {k \in 1..Len(logs) : logs[k].op = "call" /\ logs[k].id = i}

\* C22, as claimed: a proxied call that has returned, after the wrapped
\* method or after a simulated response, has sent one record to the log
\* endpoint and, with a sink attached, one to the sink; a call that has
\* thrown has sent none; whatever became of the sends, none was repeated.
C22_OneRecordPerCall ==
    \A i \in ProxyCalls :
        LET c == calls[i]
        IN c.pc = "done"
           => /\ Cardinality(LogRecordsOf(i)) = IF c.outcome.kind = "returned" THEN 1 ELSE 0
              /\ Cardinality(SinkRequestsOf(i))
                    = IF c.outcome.kind = "returned" /\ logger THEN 1 ELSE 0

\* What holds of C22: a call that returned after the wrapped method was
\* invoked sent one record to the log endpoint, a simulated call sent none,
\* and no call sent more than one record to either place.
C22_RealCallsPart ==
    \A i \in ProxyCalls :
        LET c == calls[i]
        IN /\ Cardinality(LogRecordsOf(i)) <= 1
           /\ Cardinality(SinkRequestsOf(i)) <= 1
           /\ (c.outcome.kind = "returned" /\ c.invoked = 1) => Cardinality(LogRecordsOf(i)) = 1
           /\ c.invoked = 0 => LogRecordsOf(i) = {}

\* The proxied calls invoked in a test session.
TestCalls == {i \in ProxyCalls : calls[i].isDev}

\* C23, as claimed: in a test session the wrapped method is not invoked for a
\* call before the gate's decision for it has been received; once the
\* decision is run_model = true the method is invoked exactly once, and a call
\* whose method returned has returned the method's result to the caller,
\* whatever response the gate supplied.
C23_GateDecides ==
    \A i \in TestCalls :
        LET c == calls[i]
        IN /\ c.invoked >= 1 => (c.gate = "ok" /\ c.devResponse.run_model = "true")
           /\ (c.gate = "ok" /\ c.devResponse.run_model = "true")
              => /\ c.invoked = 1
                 /\ c.result.kind = "value"
                    => c.outcome = [kind |-> "returned", v |-> c.result.v]

\* What holds of C23: the method is invoked only after a decision of
\* run_model = true, then exactly once when the call has params, and a call
\* that returns after it returns the method's result, not the gate's response.
C23_ControlFlowPart ==
    \A i \in TestCalls :
        LET c == calls[i]
        IN /\ c.invoked >= 1 => (c.gate = "ok" /\ c.devResponse.run_model = "true")
           /\ (c.gate = "ok" /\ c.devResponse.run_model = "true" /\ c.params # Undef)
              => c.invoked = 1
           /\ (c.result.kind = "value" /\ c.outcome.kind = "returned")
              => c.outcome.v = c.result.v
           /\ c.invoked <= 1

\* The value of correlation field f in the session that the n-th startSession
\* opened; for n = 0, in the state the constructor leaves.
IdsAt(n, f) ==
    IF n = 0 THEN (IF f = H_SessionType THEN "real" ELSE EmptyString) ELSE held[n][f]

\* The fields startSession stores (C8 is about the parent id, which it does
\* not store).
StoredFields == {H_DatasetId, H_SessionId, H_RecordId, H_SessionType}

\* How many startSession had run when the k-th request to the log endpoint
\* was sent.
SessionsBefore(k) == Cardinality({j \in 1..(k - 1) : logs[j].op = "startSession"})

\* C24, as claimed, in the interleaving it describes: a startSession ran
\* while a call was in flight, after the call was invoked and before its
\* record was sent; the record then carries the ids of that later session.
C24_RacePicksUpLaterSession ==
    \A i \in ProxyCalls :
        \A k \in LogRecordsOf(i) :
            SessionsBefore(k) > calls[i].started
            => \A f \in StoredFields :
                  logs[k].req.headers[f] = IdsAt(SessionsBefore(k), f)

\* C24, amended: the simulation request and the log record of a proxied call
\* carry the ids of the session that was active when the call was invoked,
\* also when a startSession ran while the call was in flight; no state is
\* reachable in which a record carries the ids of a later session.
C24_HeadersFixedAtInvocation ==
    \A i \in ProxyCalls :
        \A h \in RequestsOf(i) :
            \A f \in StoredFields \cap DOMAIN h :
                h[f] = IdsAt(calls[i].started, f)

\* C24's case: a startSession ran after a call was invoked in an earlier
\* session and before its record was sent, and the record carries the ids of
\* the earlier session.
C24_Witness ==
    \E i \in ProxyCalls :
        \E k \in LogRecordsOf(i) :
            /\ calls[i].started = 1
            /\ SessionsBefore(k) = 2
            /\ logs[k].req.headers[H_SessionId] = held[1][H_SessionId]
            /\ held[1][H_SessionId] # held[2][H_SessionId]
            /\ sims # <<>>

\* C25: the session fields are empty, with type 'real', in the state the
\* constructor leaves, and a step changes any of them only if it is a
\* startSession; proxied calls, tool calls, endSession, the gate's answers and
\* the sends to the log endpoint and to the sink leave all five unchanged.
C25_SessionFrame ==
    /\ session = <<EmptyString, "real", EmptyString, EmptyString, EmptyString>>
    /\ [][session' # session => Len(held') = Len(held) + 1]_vars

\* C25's case: after a startSession, a call has gone through the gate and
\* ended, the session was ended, every send has completed, and the session
\* fields still hold what startSession stored.
C25_Witness ==
    /\ 1 \in ended
    /\ \E i \in 1..Len(calls) : calls[i].pc = "done" /\ calls[i].gate = "ok"
    /\ \A k \in 1..Len(logs) : logs[k].req.status = "settled"
    /\ Len(logs) >= 2
    /\ sessionId = held[1][H_SessionId]
    /\ sessionType = "test"

\* The Tunerkit-* header names.
TunerkitFields == CorrelationFields \cup {H_SessionPath, H_SessionName}

\* Every Tunerkit-* header the request carries has a value that is present
\* and not empty.
OnlyPresentFields(headers) ==
    \A f \in TunerkitFields \cap DOMAIN headers : headers[f] \notin {Undef, Null, EmptyString}

\* C26, as claimed: every request to the primary log endpoint and to the
\* simulation endpoint carries only Tunerkit-* headers whose value is present
\* and not empty, for calls made before any startSession and for sessions
\* started without a parent id too.
C26_AbsentFieldsOmitted ==
    /\ \A k \in 1..Len(logs) : OnlyPresentFields(logs[k].req.headers)
    /\ \A k \in 1..Len(sims) : OnlyPresentFields(sims[k].req.headers)

\* What holds of C26: the boundary events of startSession and endSession
\* carry no absent field.
C26_BoundaryEventsPart ==
    \A k \in 1..Len(logs) : logs[k].op # "call" => OnlyPresentFields(logs[k].req.headers)

\* The requests call i sent to the simulation endpoint.
SimRequestsOf(i) == {k \in 1..Len(sims) : sims[k].id = i}

\* C27, as claimed: the simulation request of a proxied call made in a test
\* session carries the five correlation headers, each with the value the log
\* record of that call carries.
C27_SameCorrelationSet ==
    \A i \in TestCalls :
        \A a \in SimRequestsOf(i), b \in LogRecordsOf(i) :
            \A f \in CorrelationFields :
                /\ f \in DOMAIN sims[a].req.headers
                /\ f \in DOMAIN logs[b].req.headers
                /\ sims[a].req.headers[f] = logs[b].req.headers[f]

\* What holds of C27: the session id and the record id of the two requests
\* agree.
C27_SessionAndRecordPart ==
    \A i \in TestCalls :
        \A a \in SimRequestsOf(i), b \in LogRecordsOf(i) :
            \A f \in {H_SessionId, H_RecordId} :
                sims[a].req.headers[f] = logs[b].req.headers[f]

\* The instant a record gives as seconds and milliseconds.
Instant(parts) == parts.seconds * 1000 + parts.milliseconds

\* The timing of a record dispatched for a proxied call, to the log endpoint
\* or to the sink.
RecordTimings(i, sentLogs, sentSinks) ==
    {sentLogs[k].req.body.timing :
        k \in {j \in 1..Len(sentLogs) : sentLogs[j].op = "call" /\ sentLogs[j].id = i}}
    \cup {sentSinks[k].req.body.timing :
        k \in {j \in 1..Len(sentSinks) : sentSinks[j].op = "call" /\ sentSinks[j].id = i}}

\* The timings of the records a step dispatches for call i.
NewTimings(i) == RecordTimings(i, logs', sinks') \ RecordTimings(i, logs, sinks)

\* C28, as claimed: every record dispatched for a proxied call has both
\* instants, start <= end, a start taken no later than the instant the gate
\* was contacted, and, as end, the instant the response is complete, at which
\* the record is dispatched.
C28_TimingSpansCall ==
    [][\A i \in 1..Len(calls') :
          calls'[i].kind = "proxy" =>
             \A t \in NewTimings(i) :
                /\ t.startTime.seconds # NaN /\ t.endTime.seconds # NaN
                /\ Instant(t.startTime) <= Instant(t.endTime)
                /\ calls'[i].gateTime # NaN => Instant(t.startTime) <= calls'[i].gateTime
                /\ Instant(t.endTime) = now]_vars

\* What holds of C28: every record of a proxied call has both instants, with
\* start <= end, and the record of a call that invoked the method has as end
\* the instant the response was complete.
C28_PresentAndOrdered ==
    \A i \in ProxyCalls :
        \A t \in RecordTimings(i, logs, sinks) :
            /\ t.startTime.seconds # NaN /\ t.endTime.seconds # NaN
            /\ Instant(t.startTime) <= Instant(t.endTime)
            /\ calls[i].invoked > 0 => Instant(t.endTime) = calls[i].endTime

\* The record of a simulated call, sent to the sink after time has passed.
C28_SimulatedLater ==
    \E i \in ProxyCalls :
        /\ calls[i].invoked = 0
        /\ calls[i].gateTime # NaN /\ calls[i].gateTime < now
        /\ RecordTimings(i, logs, sinks) # {}

\* The calls that invoked the method they wrap.
Invoked == {i \in 1..Len(calls) : calls[i].invoked > 0}

\* C29, as claimed: the wrapped method is invoked with its natural parent as
\* receiver: for a proxied call at path a.b.c the object at a.b of the wrapped
\* client, for a function wrapped by tool() the object the wrapper was called
\* on.
C29_NaturalReceiver ==
    \A i \in Invoked :
        /\ calls[i].kind = "proxy" =>
              /\ calls[i].receiver.of = "client"
              /\ calls[i].receiver.path \o <<calls[i].path[Len(calls[i].path)]>> = calls[i].path
        /\ calls[i].kind = "tool" => calls[i].receiver = calls[i].calledOn

\* What holds of C29: the proxied half.
C29_ProxiedPart ==
    \A i \in Invoked \cap ProxyCalls :
        /\ calls[i].receiver.of = "client"
        /\ calls[i].receiver.path \o <<calls[i].path[Len(calls[i].path)]>> = calls[i].path

\* C30, as claimed: the wrapped method of a proxied call receives the
\* argument list the caller passed, unchanged and in order.
C30_OriginalArguments ==
    \A i \in Invoked \cap ProxyCalls :
        /\ Len(calls[i].received) = Len(calls[i].args)
        /\ \A k \in 1..Len(calls[i].args) : calls[i].received[k] = calls[i].args[k]

\* What holds of C30: the first argument reaches the method unchanged, and
\* so does the whole list when the caller passed params alone.
C30_FirstArgumentPart ==
    \A i \in Invoked \cap ProxyCalls :
        /\ calls[i].received[1] = calls[i].args[1]
        /\ Len(calls[i].args) = 1 => calls[i].received = calls[i].args

\* The call has contacted the gate or invoked the wrapped method.
Entered(i) == i \in ProxyCalls /\ (calls[i].gateTime # NaN \/ calls[i].invoked > 0)

\* The call has returned a value or thrown.
Completed(i) == i \in ProxyCalls /\ calls[i].pc = "done"

\* C31, as claimed: a proxied call that has entered the gate or the real
\* invocation eventually returns or throws, whatever the emitter of a
\* streamed call does.
C31_RunsToCompletion == \A i \in 1..MaxCalls : Entered(i) ~> Completed(i)

\* What holds of C31: a call that does not ask for a stream runs to
\* completion.
C31_PlainCallsComplete ==
    \A i \in 1..MaxCalls :
        (Entered(i) /\ calls[i].params # "stream") ~> Completed(i)

\* A streamed call whose emitter signalled an error while the text it had
\* accumulated was one that parses.
C31_ErroredEmitter ==
    \E i \in ProxyCalls :
        /\ calls[i].pc = "hung"
        /\ JSONParse(calls[i].fullResponse) # "SyntaxError"

\* C32: with streamed calls in flight at once and their events interleaved
\* in any order, the text a call has accumulated is the text of the chunks
\* its own stream emitted, in order; a call that returned has returned the
\* parse of that text, and the one record it sent to the log endpoint carries
\* that response and the call's own start and end instants.
C32_StreamsIsolated ==
    \A i \in StreamedCalls :
        LET c == calls[i]
        IN /\ c.fullResponse = Utf8Decode(c.emitted)
           /\ c.outcome.kind = "returned" =>
                 /\ c.outcome.v = JSONParse(Utf8Decode(c.emitted))
                 /\ Cardinality(LogRecordsOf(i)) = 1
           /\ \A k \in LogRecordsOf(i) :
                 /\ logs[k].req.body.response = JSONParse(Utf8Decode(c.emitted))
                 /\ logs[k].req.body.timing = Timing(c.startTime, c.endTime)
                 /\ c.startTime <= c.endTime

\* Two streamed calls that were in flight at once and each received data:
\* one has returned and logged its response, after the other had invoked its
\* method, and the other is still accumulating a different text.
C32_Witness ==
    \E i, j \in StreamedCalls :
        /\ i # j
        /\ calls[i].pc = "streaming" /\ calls[i].chunks > 0
        /\ calls[j].outcome.kind = "returned" /\ calls[j].chunks > 0
        /\ calls[i].startTime < calls[j].endTime
        /\ calls[i].fullResponse # calls[j].fullResponse
        /\ LogRecordsOf(j) # {}

====
